---------------------------- MODULE Spec2Model ----------------------------
(***************************************************************************)
(* Ancestrario: visor de territorios formalizados (src/Ancestrario.py).    *)
(*                                                                         *)
(* The Streamlit script is re-executed from top to bottom on every user    *)
(* interaction.  One script run is one action of the model.  What survives *)
(* between runs is the st.cache_data cache of the loader, the session      *)
(* state and the values of the widgets.                                    *)
(*                                                                         *)
(* Text that the code inspects character by character (ID_ANT as text, the *)
(* typed id_input pattern, Tipo) is a sequence of one-character strings.   *)
(* Text that the code only compares for equality is a TLA+ string.         *)
(***************************************************************************)
EXTENDS Integers, Sequences, FiniteSets, TLC

\* ------------------------------------------------------------------ bounds
\* Longest id_input typed in the single-run specification.
MaxIdLen == 2
\* Longest id_input typed in the session specification.
MaxIdLenSesion == 1
\* Largest number of rows of the shapefile in the single-run specification.
MaxRows == 4
\* Largest number of rows of the shapefile in the session specification.
MaxRowsSesion == 2

\* ------------------------------------------------------------- text helpers
\* A null attribute (None / NaN) of the shapefile.
Nulo == "<nulo>"

Range(s) == {s[i] : i \in 1..Len(s)}

RECURSIVE SeqsUpTo(_, _)
\* All sequences over S of length at most n.
SeqsUpTo(S, n) ==
    IF n = 0 THEN {<<>>}
    ELSE LET shorter == SeqsUpTo(S, n - 1)
         IN  shorter \cup {Append(s, c) : s \in shorter, c \in S}

Digito(d) == CASE d = 0 -> "0" [] d = 1 -> "1" [] d = 2 -> "2" [] d = 3 -> "3"
               [] d = 4 -> "4" [] d = 5 -> "5" [] d = 6 -> "6" [] d = 7 -> "7"
               [] d = 8 -> "8" [] d = 9 -> "9"

RECURSIVE astype_str(_)
\* Series.astype(str) on an integer ID_ANT: its decimal digits.
astype_str(n) ==
    IF n < 10 THEN <<Digito(n)>>
    ELSE Append(astype_str(n \div 10), Digito(n % 10))

\* re.compile(pat) fails on an unbalanced "(" (the alphabet holds no ")").
PatronValido(pat) == "(" \notin Range(pat)

\* re.match at offset i: "." matches any character, a digit matches itself.
MatchAt(s, pat, i) ==
    /\ i + Len(pat) - 1 <= Len(s)
    /\ \A j \in 1..Len(pat) : pat[j] = "." \/ pat[j] = s[i + j - 1]

LiteralAt(s, pat, i) ==
    /\ i + Len(pat) - 1 <= Len(s)
    /\ \A j \in 1..Len(pat) : pat[j] = s[i + j - 1]

\* Series.str.contains(pat): regex=True is the default, so re.search(pat, s).
str_contains(s, pat) == \E i \in 1..(Len(s) + 1) : MatchAt(s, pat, i)

\* Python's `sub in s` on two plain strings.
In(sub, s) == \E i \in 1..(Len(s) + 1) : LiteralAt(s, sub, i)

Mayusculas == <<"A","B","C","D","E","F","G","H","I","J","K","L","M","N","O",
                "P","Q","R","S","T","U","V","W","X","Y","Z">>
Minusculas == <<"a","b","c","d","e","f","g","h","i","j","k","l","m","n","o",
                "p","q","r","s","t","u","v","w","x","y","z">>

\* The lower-case form of each upper-case letter.
LowerTabla ==
    [c \in Range(Mayusculas) |->
        Minusculas[CHOOSE k \in 1..Len(Mayusculas) : Mayusculas[k] = c]]

LowerChar(c) == IF c \in DOMAIN LowerTabla THEN LowerTabla[c] ELSE c

\* str.lower()
lower(s) == [i \in 1..Len(s) |-> LowerChar(s[i])]

\* str.strip(): drops leading and trailing whitespace.
strip(s) ==
    LET idx == {i \in 1..Len(s) : s[i] # " "}
    IN  IF idx = {} THEN <<>>
        ELSE LET lo == CHOOSE i \in idx : \A j \in idx : i <= j
                 hi == CHOOSE i \in idx : \A j \in idx : j <= i
             IN  SubSeq(s, lo, hi)


\* ---------------------------------------------------------------- the data
\* Values of the Tipo column: free text.
TipoResguardo == "Resguardo Indigena"
TipoConsejo == " CONSEJO COMUNITARIO "
TipoComunidad == "Comunidad Negra"
TipoMixto == "Indigena y Comunitario"

TiposDeTexto == {TipoResguardo, TipoConsejo, TipoComunidad, TipoMixto}

\* The characters of each text the code reads character by character.
Caracteres(t) ==
    CASE t = TipoResguardo ->
           <<"R","e","s","g","u","a","r","d","o"," ","I","n","d","i","g","e","n","a">>
      [] t = TipoConsejo ->
           <<" ","C","O","N","S","E","J","O"," ","C","O","M","U","N","I","T","A","R","I","O"," ">>
      [] t = TipoComunidad ->
           <<"C","o","m","u","n","i","d","a","d"," ","N","e","g","r","a">>
      [] t = TipoMixto ->
           <<"I","n","d","i","g","e","n","a"," ","y"," ","C","o","m","u","n","i","t","a","r","i","o">>

\* AREA_TOTAL is in hectares; the model keeps it in tenths of a square metre.
UnidadesPorHa == 100000
UnidadesPorM2 == 10

\* The attribute columns of the shapefile, and all its columns.
Atributos == {"ID_ANT", "NOMBRE", "Tipo", "DEPARTAMEN", "MUNICIPIO",
              "AREA_TOTAL", "Recons", "FECHA"}
Columnas == Atributos \cup {"geometry"}

\* A date read by geopandas as pandas.Timestamp, and the text astype(str)
\* makes of it.
Timestamp(d) == <<"Timestamp", d>>
Texto(d) == <<"str", d>>

Fila(id, nombre, tipo, depto, mpio, area, recons, fecha, geom) ==
    [ID_ANT |-> id, NOMBRE |-> nombre, Tipo |-> tipo, DEPARTAMEN |-> depto,
     MUNICIPIO |-> mpio, AREA_TOTAL |-> area, Recons |-> recons,
     FECHA |-> fecha, geometry |-> geom]

\* The rows a Formalizados.zip may hold, in file order.  conFecha: the FECHA
\* column is a date column (read as Timestamp) and not a text column.
Territorios(conFecha) ==
    LET F(d) == IF conFecha THEN Timestamp(d) ELSE Texto(d)
    IN  << Fila(1,  "Awa",       TipoResguardo, "Narino", "Tumaco",   199996, "SI", F(1), "geom1"),
           Fila(12, "Alto Mira", TipoConsejo,   "Narino", "Tumaco",   350000, "NO", F(2), "geom2"),
           Fila(21, "Awa",       TipoComunidad,    "Cauca",  "Guapi",     99990, "SI", F(3), "geom3"),
           Fila(2,  "Yurumangui", Nulo,         "Cauca",  "Timbiqui", 120005, "NO", F(4), "geom4"),
           Fila(112, "Napi",     TipoMixto,     "Choco",  "Quibdo",   500000, "SI", F(5), "geom5") >>

\* What the remote Formalizados.zip may hold: a non-empty shapefile of at
\* most n rows.
Datasets(n) == {SubSeq(Territorios(f), 1, k) : f \in BOOLEAN, k \in 1..n}

\* The departmental boundaries layer (Departamentos.zip).
Departamentos == << [DPTO_CNMBR |-> "NARINO", geometry |-> "dep1"],
                    [DPTO_CNMBR |-> "CAUCA", geometry |-> "dep2"] >>

\* Series.unique(): the values of a column.
Unicos(g, col) == {g[i][col] : i \in 1..Len(g)}


\* An optional value: <<>> when absent, <<v>> when present.
Ninguno == <<>>
Algun(v) == <<v>>

\* --------------------------------------------------------------- the state
VARIABLES
    remoto,                  \* what the remote Formalizados.zip holds
    cache,                   \* st.cache_data: source -> optional frame
    session_state,           \* st.session_state: key -> value
    id_input, nombre_input, tipo_sel, depto_sel, mpio_sel,   \* filter widgets
    visualizacion_poligono, mostrar_limites_deptos,          \* option widgets
    primera,                 \* the last run was the first of its session
    boton,                   \* the button pressed in the last run
    carga,                   \* how each layer's load ended in the last run
    gdf, gdf_filtrado,       \* optional frames of the last run
    salida,                  \* the elements the last run put on the page
    estilos,                 \* style of each drawn territory (last run)
    estadisticas,            \* optional statistics block (last run)
    csv, zip,                \* optional export payloads (last run)
    rerun,                   \* st.rerun() was called: a run is pending
    fase,                    \* "sesion", or "entrada"/"hecho" in single runs
    territories, query,      \* overlay workflow: base collection, uploaded polygon
    affected, intersections  \* overlay workflow: the last analysis

widgets == <<id_input, nombre_input, tipo_sel, depto_sel, mpio_sel,
             visualizacion_poligono, mostrar_limites_deptos>>
corrida == <<primera, boton, carga, gdf, gdf_filtrado, salida, estilos, estadisticas,
             csv, zip, rerun>>
visor == <<remoto, cache, session_state, widgets, corrida, fase>>
overlay == <<territories, query, affected, intersections>>

\* How a load can end: served from the cache, read, or one of the failures.
Resultados == {"ok", "red", "corrupto", "sin_shp"}
Fallos == Resultados \ {"ok"}
Botones == {"ninguno", "mostrar", "reiniciar", "exportar"}
ExtensionesZip == {".shp", ".shx", ".dbf", ".prj", ".cpg"}

\* ------------------------------------------------------------ the loader
\* @st.cache_data cargar_shapefile_desde_zip(zip_source), for an http source.
\* `resultado` is what the network and the archive do when the cache misses.
\*   red      : requests raises; st.error, st.stop()
\*   corrupto : zipfile.BadZipFile, not caught by the function
\*   sin_shp  : FileNotFoundError raised by the function
\* A call that raises caches nothing.
cargar_shapefile_desde_zip(c, zip_source, contenido, resultado) ==
    IF c[zip_source] # Ninguno
    THEN [estado |-> "cache", valor |-> c[zip_source][1], cache |-> c]
    ELSE IF resultado = "ok"
    THEN [estado |-> "ok", valor |-> contenido,
          cache |-> [c EXCEPT ![zip_source] = Algun(contenido)]]
    ELSE [estado |-> resultado, valor |-> <<>>, cache |-> c]

\* A slip: the column becomes the text of its first value.
ConvertirFechasPrimera(g) ==
    IF g[1].FECHA[1] = "Timestamp"
    THEN [i \in 1..Len(g) |-> [g[i] EXCEPT !.FECHA = Texto(g[1].FECHA[2])]]
    ELSE g

\* Lines 89-91: a column whose first value is a Timestamp becomes text.
\* Only FECHA can hold dates; the other columns are numbers and text.
ConvertirFechas(g) ==
    IF g[1].FECHA[1] = "Timestamp"
    THEN [i \in 1..Len(g) |-> [g[i] EXCEPT !.FECHA = Texto(g[i].FECHA[2])]]
    ELSE g

\* ------------------------------------------------------------ the filters
\* What the user may type into "Buscar por ID": digits and the characters
\* "." and "(", which a regular expression reads specially.
Teclas == {"1", "2", ".", "("}
IdInputs(n) == SeqsUpTo(Teclas, n)
IdsPosibles == {Territorios(TRUE)[i].ID_ANT : i \in 1..Len(Territorios(TRUE))}

\* Line 157: gdf_filtrado["ID_ANT"].astype(str).str.contains(id_input), for
\* each identifier and each pattern that compiles.
IdContiene ==
    [n \in IdsPosibles, pat \in IdInputs(MaxIdLen) |->
        PatronValido(pat) /\ str_contains(astype_str(n), pat)]

\* Lines 154-165.  Each active filter narrows the copy in turn.
FiltroId(g, id) ==
    LET Pasa(r) == IdContiene[r.ID_ANT, id]
    IN  IF id # <<>> THEN SelectSeq(g, Pasa) ELSE g

FiltroNombre(g, nombre) ==
    LET Pasa(r) == r.NOMBRE = nombre
    IN  IF nombre # "" THEN SelectSeq(g, Pasa) ELSE g

FiltroIsin(g, col, sel) ==
    LET Pasa(r) == r[col] \in sel
    IN  IF sel # {} THEN SelectSeq(g, Pasa) ELSE g

Filtrar(g, id, nombre, tipos, deptos, mpios) ==
    FiltroIsin(FiltroIsin(FiltroIsin(FiltroNombre(FiltroId(g, id), nombre),
                                     "Tipo", tipos),
                          "DEPARTAMEN", deptos),
               "MUNICIPIO", mpios)

\* ------------------------------------------------------- map and statistics
ColorIndigena == "#228B22"
ColorConsejo == "#8B4513"

\* Lines 184-194: estilo_tipo(x, viz_option), on a non-null Tipo.
estilo_tipo(tipo_crudo, viz_option) ==
    LET tipo == lower(strip(Caracteres(tipo_crudo)))
        base == IF In(<<"i","n","d","i","g","e","n","a">>, tipo)
                THEN ColorIndigena ELSE ColorConsejo
    IN  [fillColor |-> base, color |-> base, weight |-> 2,
         fillOpacity |-> IF viz_option = "Con Relleno" THEN 5 ELSE 0]

\* The style of each value of Tipo under each polygon style.
Visualizaciones == {"Con Relleno", "Solo Contorno"}
Estilo ==
    [t \in TiposDeTexto, v \in Visualizaciones |-> estilo_tipo(t, v)]

\* Line 287: gdf_filtrado["Tipo"].str.lower().str.strip(); on a non-null Tipo.
tipo_normalizado(t) == strip(lower(Caracteres(t)))

\* Lines 288-289: tipo_normalizado.str.contains(palabra), per value of Tipo.
ContieneIndigena ==
    [t \in TiposDeTexto |->
        str_contains(tipo_normalizado(t), <<"i","n","d","i","g","e","n","a">>)]
ContieneComunitario ==
    [t \in TiposDeTexto |->
        str_contains(tipo_normalizado(t),
                     <<"c","o","m","u","n","i","t","a","r","i","o">>)]

\* Lines 288-289: .sum() counts the matches; a null Tipo counts in neither.
cuenta_indigena(g) ==
    Cardinality({i \in 1..Len(g) :
        g[i].Tipo # Nulo /\ ContieneIndigena[g[i].Tipo]})
cuenta_consejo(g) ==
    Cardinality({i \in 1..Len(g) :
        g[i].Tipo # Nulo /\ ContieneComunitario[g[i].Tipo]})

RECURSIVE Suma(_)
\* Line 284: gdf_filtrado["AREA_TOTAL"].sum()
Suma(g) == IF g = <<>> THEN 0 ELSE Head(g).AREA_TOTAL + Suma(Tail(g))

\* round(): to the nearest integer, a tie to the even one.
Round(num, den) ==
    LET q == num \div den
        r == num % den
    IN  IF 2 * r < den THEN q
        ELSE IF 2 * r > den THEN q + 1
        ELSE IF q % 2 = 0 THEN q ELSE q + 1

\* A slip: round(area_total) in the place of int(area_total).
hectareas_round(area_total) == Round(area_total, UnidadesPorHa)

\* Line 285: int(area_total), area_total >= 0.
hectareas(area_total) == area_total \div UnidadesPorHa

\* Line 286: int(round((area_total - hectareas) * 10000))
metros2(area_total) ==
    Round(area_total - hectareas(area_total) * UnidadesPorHa, UnidadesPorM2)

Estadisticas(g) ==
    [total_comunidades |-> Len(g),
     area_total |-> Suma(g),
     hectareas |-> hectareas(Suma(g)),
     metros2 |-> metros2(Suma(g)),
     cuenta_indigena |-> cuenta_indigena(g),
     cuenta_consejo |-> cuenta_consejo(g)]

\* ---------------------------------------------------------------- exports
\* DataFrame.drop(columns="geometry")
SinGeometria(g) ==
    [i \in 1..Len(g) |-> [col \in (DOMAIN g[i]) \ {"geometry"} |-> g[i][col]]]

\* A slip: the CSV written without dropping the geometry column.
ExportarCsvConGeometria(g) == [columnas |-> DOMAIN g[1], filas |-> g]

\* Line 311: the CSV is the frame without its geometry column.
ExportarCsv(g) ==
    [columnas |-> (DOMAIN g[1]) \ {"geometry"}, filas |-> SinGeometria(g)]

\* Lines 314-324: to_file writes the shapefile's parts into the temporary
\* directory (`escritos`); the ZIP takes those of the five extensions that
\* exist.
ExportarZip(g, escritos) ==
    [archivos |-> {ext \in {".shp", ".shx", ".dbf", ".prj", ".cpg"} :
                       ext \in escritos},
     registros |-> g]


\* ----------------------------------------------------------- one script run
FuentePrincipal == "Formalizados.zip"
FuenteDeptos == "Departamentos.zip"
SesionVacia == [k \in {} |-> FALSE]
CacheVacia == [f \in {FuentePrincipal, FuenteDeptos} |-> Ninguno]

\* The page elements a run can show.
ElementosResultado ==
    {"territorio_consultado", "subheader_mapa", "mapa", "tabla",
     "estadisticas", "descarga_csv", "descarga_shp", "exito_html",
     "descarga_html"}
Avisos ==
    {"aviso_sin_resultados", "aviso_limites_no_encontrado",
     "aviso_limites_error"}
Elementos ==
    ElementosResultado \cup Avisos \cup {"error_descarga", "excepcion", "pie"}

\* The run before its first line.  fin: the run has ended (st.stop(), an
\* uncaught exception shown by Streamlit, or st.rerun()).
Inicio(c, ss) ==
    [cache |-> c, session_state |-> ss,
     carga |-> [principal |-> "no", deptos |-> "no"],
     gdf |-> Ninguno, gdf_filtrado |-> Ninguno, salida |-> {},
     estilos |-> <<>>, estadisticas |-> Ninguno, csv |-> Ninguno,
     zip |-> Ninguno, rerun |-> FALSE, fin |-> FALSE]

\* Lines 85-91: load the territories, then turn date columns into text.
CargarPrincipal(r, contenido, resultado) ==
    LET l == cargar_shapefile_desde_zip(r.cache, FuentePrincipal, contenido,
                                        resultado)
    IN  IF l.estado \in {"cache", "ok"}
        THEN [r EXCEPT !.cache = l.cache, !.carga.principal = l.estado,
                       !.gdf = Algun(ConvertirFechas(l.valor))]
        ELSE [r EXCEPT !.carga.principal = l.estado, !.fin = TRUE,
                       !.salida = @ \cup {IF l.estado = "red"
                                          THEN "error_descarga"
                                          ELSE "excepcion"}]

\* A slip: "Mostrar mapa" written as a toggle of the flag.
SesionYBotonesAlterna(r, btn) ==
    LET ss1 == IF "mostrar_mapa" \in DOMAIN r.session_state
               THEN r.session_state
               ELSE [k \in {"mostrar_mapa"} |-> FALSE]
        ss2 == IF btn = "mostrar"
               THEN [ss1 EXCEPT !["mostrar_mapa"] = ~@] ELSE ss1
    IN  IF r.fin THEN r
        ELSE IF btn = "reiniciar"
        THEN [r EXCEPT !.session_state = SesionVacia, !.rerun = TRUE,
                       !.fin = TRUE]
        ELSE [r EXCEPT !.session_state = ss2]

\* Lines 139-152: the session flag and the three buttons.
SesionYBotones(r, btn) ==
    LET ss1 == IF "mostrar_mapa" \in DOMAIN r.session_state
               THEN r.session_state
               ELSE [k \in {"mostrar_mapa"} |-> FALSE]
        ss2 == IF btn = "mostrar"
               THEN [ss1 EXCEPT !["mostrar_mapa"] = TRUE] ELSE ss1
    IN  IF r.fin THEN r
        ELSE IF btn = "reiniciar"
        THEN [r EXCEPT !.session_state = SesionVacia, !.rerun = TRUE,
                       !.fin = TRUE]
        ELSE [r EXCEPT !.session_state = ss2]

\* Lines 154-165: str.contains compiles id_input; a bad pattern raises.
Filtros(r, w) ==
    IF r.fin THEN r
    ELSE IF w.id_input # <<>> /\ ~PatronValido(w.id_input)
    THEN [r EXCEPT !.salida = @ \cup {"excepcion"}, !.fin = TRUE]
    ELSE [r EXCEPT !.gdf_filtrado =
              Algun(Filtrar(r.gdf[1], w.id_input, w.nombre_input,
                            w.tipo_sel, w.depto_sel, w.mpio_sel))]

\* Lines 167-173: the banner of a single result.
Encabezado(r) ==
    IF ~r.fin /\ r.session_state["mostrar_mapa"] /\ Len(r.gdf_filtrado[1]) = 1
    THEN [r EXCEPT !.salida = @ \cup {"territorio_consultado"}]
    ELSE r

\* A slip: st.stop() taken for an Exception, which the handler would catch.
CargarDeptosAtrapaStop(r, w, resultado) ==
    LET l == cargar_shapefile_desde_zip(r.cache, FuenteDeptos, Departamentos,
                                        resultado)
    IN  IF ~w.mostrar_limites_deptos THEN r
        ELSE IF l.estado \in {"cache", "ok"}
        THEN [r EXCEPT !.cache = l.cache, !.carga.deptos = l.estado]
        ELSE [r EXCEPT !.carga.deptos = l.estado,
                       !.salida = @ \cup {IF l.estado = "sin_shp"
                                          THEN "aviso_limites_no_encontrado"
                                          ELSE "aviso_limites_error"}]

\* Lines 206-247: the optional departmental layer.  st.stop() raises a
\* BaseException, which `except Exception` lets through; FileNotFoundError and
\* every other Exception end in a warning and the run goes on.
CargarDeptos(r, w, resultado) ==
    LET l == cargar_shapefile_desde_zip(r.cache, FuenteDeptos, Departamentos,
                                        resultado)
    IN  IF ~w.mostrar_limites_deptos THEN r
        ELSE IF l.estado \in {"cache", "ok"}
        THEN [r EXCEPT !.cache = l.cache, !.carga.deptos = l.estado]
        ELSE IF l.estado = "red"
        THEN [r EXCEPT !.carga.deptos = l.estado, !.fin = TRUE,
                       !.salida = @ \cup {"error_descarga"}]
        ELSE [r EXCEPT !.carga.deptos = l.estado,
                       !.salida = @ \cup {IF l.estado = "sin_shp"
                                          THEN "aviso_limites_no_encontrado"
                                          ELSE "aviso_limites_error"}]

\* Lines 277-331: the map is rendered (every feature is styled, and a null
\* Tipo raises in estilo_tipo), then the table, the statistics and the
\* downloads.
Render(r, w, btn, escritos) ==
    LET g == r.gdf_filtrado[1]
    IN  IF r.fin THEN r
        ELSE IF \E i \in 1..Len(g) : g[i].Tipo = Nulo
        THEN [r EXCEPT !.salida = @ \cup {"excepcion"}, !.fin = TRUE]
        ELSE [r EXCEPT
                 !.estilos = [i \in 1..Len(g) |->
                                 Estilo[g[i].Tipo, w.visualizacion_poligono]],
                 !.estadisticas = Algun(Estadisticas(g)),
                 !.csv = Algun(ExportarCsv(g)),
                 !.zip = Algun(ExportarZip(g, escritos)),
                 !.salida = @ \cup {"mapa", "tabla", "estadisticas",
                                    "descarga_csv", "descarga_shp"}
                              \cup (IF btn = "exportar"
                                    THEN {"exito_html", "descarga_html"}
                                    ELSE {})]

\* A slip: the empty result taken for an error that stops the run.
AvisoYDetener(r) ==
    [r EXCEPT !.salida = @ \cup {"aviso_sin_resultados"}, !.fin = TRUE]

\* Lines 333-334: an empty result is a warning, and the run goes on.
AvisoSinResultados(r) ==
    [r EXCEPT !.salida = @ \cup {"aviso_sin_resultados"}]

\* Lines 175-334: the result, or the warning of an empty result.
\* folium.GeoJson (line 196) tries the style function on the first feature.
Resultado(r, w, btn, env) ==
    LET g == r.gdf_filtrado[1]
        r1 == [r EXCEPT !.salida = @ \cup {"subheader_mapa"}]
    IN  IF r.fin \/ ~r.session_state["mostrar_mapa"] THEN r
        ELSE IF g = <<>> THEN AvisoSinResultados(r)
        ELSE IF g[1].Tipo = Nulo
        THEN [r1 EXCEPT !.salida = @ \cup {"excepcion"}, !.fin = TRUE]
        ELSE Render(CargarDeptos(r1, w, env.deptos), w, btn, env.escritos)

\* Lines 336-344: the footer, when the run gets to the end of the script.
Pie(r) == IF r.fin THEN r ELSE [r EXCEPT !.salida = @ \cup {"pie"}]

\* The whole script, top to bottom: each step works on the run the step
\* before it left.
Script(c, ss, contenido, w, btn, env) ==
    CHOOSE fin \in
        {Pie(r5) : r5 \in
          {Resultado(r4, w, btn, env) : r4 \in
            {Encabezado(r3) : r3 \in
              {Filtros(r2, w) : r2 \in
                {SesionYBotones(r1, btn) : r1 \in
                  {CargarPrincipal(Inicio(c, ss), contenido, env.principal)}}}}}}
        : TRUE

\* ------------------------------------------------------------ the widgets
\* Lines 117-120: the options offered by the selectors, from the territories.
OpcionesNombre(g) == {""} \cup Unicos(g, "NOMBRE")
OpcionesTipo(g) == Unicos(g, "Tipo") \ {Nulo}
Selecciones(opciones) == SUBSET opciones

\* The parts of a shapefile that to_file writes: all five, or all but the
\* encoding file.
EscritosCompleto == {".shp", ".shx", ".dbf", ".prj", ".cpg"}
EscritosPosibles == {EscritosCompleto, EscritosCompleto \ {".cpg"}}

\* The environments that can tell a run with cache c apart: a layer that is
\* cached is not fetched, and the departmental layer is fetched only when
\* asked for.
Entornos(c, limites, escritos) ==
    [principal : IF c[FuentePrincipal] # Ninguno THEN {"ok"} ELSE Resultados,
     deptos : IF c[FuenteDeptos] # Ninguno \/ ~limites
              THEN {"ok"} ELSE Resultados,
     escritos : escritos]

\* The frame the widgets of the page were built from.
Cargado == cache[FuentePrincipal] # Ninguno
GdfCargado == ConvertirFechas(cache[FuentePrincipal][1])

\* One run of the script in session ss, with the widgets as they are in the
\* next state.
Ejecutar(ss, nueva, btn, env) ==
    \E w \in {[id_input |-> id_input', nombre_input |-> nombre_input',
               tipo_sel |-> tipo_sel', depto_sel |-> depto_sel',
               mpio_sel |-> mpio_sel',
               visualizacion_poligono |-> visualizacion_poligono',
               mostrar_limites_deptos |-> mostrar_limites_deptos']} :
      \E r \in {Script(cache, ss, remoto, w, btn, env)} :
        /\ primera' = nueva
        /\ boton' = btn
        /\ cache' = r.cache
        /\ session_state' = r.session_state
        /\ carga' = r.carga
        /\ gdf' = r.gdf
        /\ gdf_filtrado' = r.gdf_filtrado
        /\ salida' = r.salida
        /\ estilos' = r.estilos
        /\ estadisticas' = r.estadisticas
        /\ csv' = r.csv
        /\ zip' = r.zip
        /\ rerun' = r.rerun
        /\ UNCHANGED <<remoto, overlay>>

WidgetsPorDefecto ==
    /\ id_input = <<>>
    /\ nombre_input = ""
    /\ tipo_sel = {}
    /\ depto_sel = {}
    /\ mpio_sel = {}
    /\ visualizacion_poligono = "Con Relleno"
    /\ mostrar_limites_deptos = FALSE

SinCorrida ==
    /\ primera = FALSE
    /\ boton = "ninguno"
    /\ carga = [principal |-> "no", deptos |-> "no"]
    /\ gdf = Ninguno
    /\ gdf_filtrado = Ninguno
    /\ salida = {}
    /\ estilos = <<>>
    /\ estadisticas = Ninguno
    /\ csv = Ninguno
    /\ zip = Ninguno
    /\ rerun = FALSE

\* The overlay workflow is not part of this page.
SinOverlay ==
    /\ territories = {}
    /\ query = Ninguno
    /\ affected = {}
    /\ intersections = {}

\* --------------------------------------------------------------- a session
\* Before the first run: nothing cached, no session, the page not yet built.
Init ==
    /\ remoto \in Datasets(MaxRowsSesion)
    /\ cache = CacheVacia
    /\ session_state = SesionVacia
    /\ WidgetsPorDefecto
    /\ SinCorrida
    /\ SinOverlay
    /\ fase = "sesion"

EnSesion == fase = "sesion" /\ ~rerun

\* The browser opens (or reloads) the page: a new session, default widgets.
AbrirSesion ==
    /\ EnSesion
    /\ id_input' = <<>>
    /\ nombre_input' = ""
    /\ tipo_sel' = {}
    /\ depto_sel' = {}
    /\ mpio_sel' = {}
    /\ visualizacion_poligono' = "Con Relleno"
    /\ mostrar_limites_deptos' = FALSE
    /\ \E env \in Entornos(cache, FALSE, {EscritosCompleto}) :
           Ejecutar(SesionVacia, TRUE, "ninguno", env)
    /\ UNCHANGED fase

\* The user edits one widget of the page; Streamlit runs the script again.
CambiarId ==
    /\ EnSesion /\ Cargado
    /\ \E v \in IdInputs(MaxIdLenSesion) : v # id_input /\ id_input' = v
    /\ UNCHANGED <<nombre_input, tipo_sel, depto_sel, mpio_sel,
                   visualizacion_poligono, mostrar_limites_deptos, fase>>
    /\ \E env \in Entornos(cache, mostrar_limites_deptos',
                           {EscritosCompleto}) :
           Ejecutar(session_state, FALSE, "ninguno", env)

CambiarNombre ==
    /\ EnSesion /\ Cargado
    /\ \E v \in OpcionesNombre(GdfCargado) :
           v # nombre_input /\ nombre_input' = v
    /\ UNCHANGED <<id_input, tipo_sel, depto_sel, mpio_sel,
                   visualizacion_poligono, mostrar_limites_deptos, fase>>
    /\ \E env \in Entornos(cache, mostrar_limites_deptos',
                           {EscritosCompleto}) :
           Ejecutar(session_state, FALSE, "ninguno", env)

CambiarTipo ==
    /\ EnSesion /\ Cargado
    /\ \E v \in Selecciones(OpcionesTipo(GdfCargado)) :
           v # tipo_sel /\ tipo_sel' = v
    /\ UNCHANGED <<id_input, nombre_input, depto_sel, mpio_sel,
                   visualizacion_poligono, mostrar_limites_deptos, fase>>
    /\ \E env \in Entornos(cache, mostrar_limites_deptos',
                           {EscritosCompleto}) :
           Ejecutar(session_state, FALSE, "ninguno", env)

CambiarDepto ==
    /\ EnSesion /\ Cargado
    /\ \E v \in Selecciones(Unicos(GdfCargado, "DEPARTAMEN")) :
           v # depto_sel /\ depto_sel' = v
    /\ UNCHANGED <<id_input, nombre_input, tipo_sel, mpio_sel,
                   visualizacion_poligono, mostrar_limites_deptos, fase>>
    /\ \E env \in Entornos(cache, mostrar_limites_deptos',
                           {EscritosCompleto}) :
           Ejecutar(session_state, FALSE, "ninguno", env)

CambiarMpio ==
    /\ EnSesion /\ Cargado
    /\ \E v \in Selecciones(Unicos(GdfCargado, "MUNICIPIO")) :
           v # mpio_sel /\ mpio_sel' = v
    /\ UNCHANGED <<id_input, nombre_input, tipo_sel, depto_sel,
                   visualizacion_poligono, mostrar_limites_deptos, fase>>
    /\ \E env \in Entornos(cache, mostrar_limites_deptos',
                           {EscritosCompleto}) :
           Ejecutar(session_state, FALSE, "ninguno", env)

CambiarVisualizacion ==
    /\ EnSesion /\ Cargado
    /\ \E v \in Visualizaciones :
           v # visualizacion_poligono /\ visualizacion_poligono' = v
    /\ UNCHANGED <<id_input, nombre_input, tipo_sel, depto_sel, mpio_sel,
                   mostrar_limites_deptos, fase>>
    /\ \E env \in Entornos(cache, mostrar_limites_deptos',
                           {EscritosCompleto}) :
           Ejecutar(session_state, FALSE, "ninguno", env)

CambiarLimites ==
    /\ EnSesion /\ Cargado
    /\ mostrar_limites_deptos' = ~mostrar_limites_deptos
    /\ UNCHANGED <<id_input, nombre_input, tipo_sel, depto_sel, mpio_sel,
                   visualizacion_poligono, fase>>
    /\ \E env \in Entornos(cache, mostrar_limites_deptos',
                           {EscritosCompleto}) :
           Ejecutar(session_state, FALSE, "ninguno", env)

\* The user presses one of the three buttons of the page.
MostrarMapa ==
    /\ EnSesion /\ Cargado
    /\ UNCHANGED <<widgets, fase>>
    /\ \E env \in Entornos(cache, mostrar_limites_deptos',
                           {EscritosCompleto}) :
           Ejecutar(session_state, FALSE, "mostrar", env)

ReiniciarVisor ==
    /\ EnSesion /\ Cargado
    /\ UNCHANGED <<widgets, fase>>
    /\ \E env \in Entornos(cache, mostrar_limites_deptos',
                           {EscritosCompleto}) :
           Ejecutar(session_state, FALSE, "reiniciar", env)

ExportarHTML ==
    /\ EnSesion /\ Cargado
    /\ UNCHANGED <<widgets, fase>>
    /\ \E env \in Entornos(cache, mostrar_limites_deptos',
                           {EscritosCompleto}) :
           Ejecutar(session_state, FALSE, "exportar", env)

\* st.rerun(): the script runs again at once, no button pressed; the widgets
\* keep their values.
Rerun ==
    /\ fase = "sesion" /\ rerun
    /\ UNCHANGED <<widgets, fase>>
    /\ \E env \in Entornos(cache, mostrar_limites_deptos',
                           {EscritosCompleto}) :
           Ejecutar(session_state, FALSE, "ninguno", env)

Next ==
    \/ AbrirSesion
    \/ CambiarId
    \/ CambiarNombre
    \/ CambiarTipo
    \/ CambiarDepto
    \/ CambiarMpio
    \/ CambiarVisualizacion
    \/ CambiarLimites
    \/ MostrarMapa
    \/ ReiniciarVisor
    \/ ExportarHTML
    \/ Rerun

vars == <<visor, overlay>>

Spec == Init /\ [][Next]_vars

\* -------------------------------------------------------------- a single run
\* One run of the script on a page that is already built: any territories,
\* any values of the filter widgets, the map shown or not.
InitCorrida ==
    /\ remoto \in {d \in Datasets(MaxRows) : d[1].FECHA[1] = "Timestamp"}
    /\ cache = [CacheVacia EXCEPT ![FuentePrincipal] = Algun(remoto)]
    /\ session_state \in [{"mostrar_mapa"} -> BOOLEAN]
    /\ id_input \in IdInputs(MaxIdLen)
    /\ nombre_input \in OpcionesNombre(remoto)
    /\ tipo_sel \in Selecciones(OpcionesTipo(remoto))
    /\ depto_sel \in Selecciones(Unicos(remoto, "DEPARTAMEN"))
    /\ mpio_sel \in Selecciones(Unicos(remoto, "MUNICIPIO"))
    /\ visualizacion_poligono \in Visualizaciones
    /\ mostrar_limites_deptos = FALSE
    /\ SinCorrida
    /\ SinOverlay
    /\ fase = "entrada"

Corrida ==
    /\ fase = "entrada"
    /\ fase' = "hecho"
    /\ UNCHANGED widgets
    /\ \E btn \in {"ninguno", "exportar"} :
         \E env \in Entornos(cache, mostrar_limites_deptos, EscritosPosibles) :
           Ejecutar(session_state, FALSE, btn, env)

NextCorrida == Corrida

SpecCorrida == InitCorrida /\ [][NextCorrida]_vars


\* ------------------------------------------------------ the overlay analyzer
\* The overlay workflow of the fullest revision of the script (its second
\* tab), from sections 3 and 4.1 of its specification. The plane is a row of
\* regions 1..NumRegiones; a geometry is the set of regions it covers (a
\* multipolygon when they are not contiguous). Two geometries share positive
\* area when they have a region in common, and touch along a boundary when
\* they have none but cover neighbouring regions.
NumRegiones == 6

Regiones == 1..NumRegiones

\* The area of a region measured in the projected reference system, in m2
\* (every area is a multiple of 100 m2, so hundredths of a hectare are exact).
AreaRegion(r) ==
    CASE r = 1 -> 850000
      [] r = 2 -> 100000
      [] r = 3 -> 600000
      [] r = 4 -> 400000
      [] OTHER -> 250000

\* Territory: administrative attributes, the declared area in hectares, and
\* the geometry.
Territory(id, name, type, department, municipality, area_total, geometry) ==
    [id |-> id, name |-> name, type |-> type, department |-> department,
     municipality |-> municipality, area_total |-> area_total,
     geometry |-> geometry]

\* T1 is declared 100 ha and measures 95 ha; T3 is declared 30 ha, measures
\* 100 ha and overlaps T2; region 5 belongs to no territory.
TerritoriosBase ==
    {Territory("T1", "Awa", TipoResguardo, "Narino", "Tumaco", 100, {1, 2}),
     Territory("T2", "Alto Mira", TipoConsejo, "Narino", "Tumaco", 60, {3}),
     Territory("T3", "Napi", TipoMixto, "Cauca", "Guapi", 30, {3, 4}),
     Territory("T4", "Yurumangui", TipoComunidad, "Cauca", "Timbiqui", 25, {6})}

\* QueryPolygon: any polygon or multipolygon; {} is a zero-area query.
QueryPolygon == SUBSET Regiones

RECURSIVE area_m2(_)
\* Step 3: the area of a geometry in the projected reference system.
area_m2(geometry) ==
    IF geometry = {} THEN 0
    ELSE LET r == CHOOSE x \in geometry : TRUE
         IN  AreaRegion(r) + area_m2(geometry \ {r})

\* A slip: the territory must lie within the query to overlap it.
Contenida(g, q) == g # {} /\ g \subseteq q

\* The two geometries share a region of non-zero area.
Solapa(g, q) == g \cap q # {}

\* The two geometries share a boundary and no area.
Toca(g, q) ==
    /\ g \cap q = {}
    /\ \E a \in g : \E b \in q : a - b \in {1, -1}

\* The geometry engine's intersects predicate (step 1).
intersects(g, q) == Solapa(g, q) \/ Toca(g, q)

\* An area in units of 100 m2, exact because every measured area is a whole
\* multiple of 100 m2; it keeps the products below within the integer range.
Ares(m2) == m2 \div 100

\* Section 3: area_ha = area_m2 / 10000, here in hundredths of a hectare.
area_ha(m2) == Ares(m2)

\* Section 3: pct_of_query = area_m2 / query_area_m2 * 100, rounded to two
\* decimals; here in hundredths of a percent.
pct_of_query(m2, query_m2) == Round(Ares(m2) * 100 * 100, Ares(query_m2))

\* A slip: the measured area of the geometry as the denominator.
pct_of_territory_medida(m2, territory) ==
    Round(Ares(m2) * 100 * 100, Ares(area_m2(territory.geometry)))

\* Section 3: pct_of_territory = area_m2 / (area_total * 10000) * 100, rounded
\* to two decimals, not clamped; here in hundredths of a percent.
pct_of_territory(m2, territory) ==
    Round(Ares(m2) * 100 * 100, Ares(territory.area_total * 10000))

\* IntersectionRecord of one (Territory, QueryPolygon) pair (steps 2 to 4).
IntersectionRecord(territory, q) ==
    LET geometry == territory.geometry \cap q
        m2 == area_m2(geometry)
    IN  [id |-> territory.id,
         geometry |-> geometry,
         area_m2 |-> m2,
         area_ha |-> area_ha(m2),
         pct_of_query |-> pct_of_query(m2, area_m2(q)),
         pct_of_territory |-> pct_of_territory(m2, territory)]

\* analyze(territories, query). A territory that only touches the query is
\* affected; the clipped overlap of that pair has no area, and the geometry
\* engine either keeps it as a record of area zero or drops it (degenerados).
analyze(T, q, degenerados) ==
    [affected |-> {t \in T : intersects(t.geometry, q)},
     intersections |->
        {IntersectionRecord(t, q) :
            t \in {u \in T : \/ Solapa(u.geometry, q)
                             \/ degenerados /\ Toca(u.geometry, q)}}]

\* The overlay tab with the base collection loaded and no file uploaded.
InitOverlay ==
    /\ remoto = <<>>
    /\ cache = CacheVacia
    /\ session_state = SesionVacia
    /\ WidgetsPorDefecto
    /\ SinCorrida
    /\ territories \in SUBSET TerritoriosBase
    /\ query = Ninguno
    /\ affected = {}
    /\ intersections = {}
    /\ fase = "espera"

\* The user uploads a polygon archive: the query of the next analysis.
SubirPoligono ==
    /\ fase \in {"espera", "analizado"}
    /\ \E q \in QueryPolygon : query' = Algun(q)
    /\ affected' = {}
    /\ intersections' = {}
    /\ fase' = "subido"
    /\ UNCHANGED <<remoto, cache, session_state, widgets, corrida, territories>>

\* The analysis of the uploaded polygon against the base collection.
Analizar ==
    /\ fase = "subido"
    /\ \E degenerados \in BOOLEAN :
         \E r \in {analyze(territories, query[1], degenerados)} :
           /\ affected' = r.affected
           /\ intersections' = r.intersections
    /\ fase' = "analizado"
    /\ UNCHANGED <<remoto, cache, session_state, widgets, corrida, territories,
                   query>>

NextOverlay ==
    \/ SubirPoligono
    \/ Analizar

SpecOverlay == InitOverlay /\ [][NextOverlay]_vars


\* ================================================================= claims
M2PorHa == 10000
Flag == "mostrar_mapa" \in DOMAIN session_state /\ session_state["mostrar_mapa"]
Descargas == {"descarga_csv", "descarga_shp", "descarga_html"}
Productos == {"mapa", "tabla", "estadisticas"} \cup Descargas

\* The rows of g that satisfy every active filter, ID_ANT read as a literal
\* substring.
CumpleFiltros(r) ==
    /\ id_input = <<>> \/ In(id_input, astype_str(r.ID_ANT))
    /\ nombre_input = "" \/ r.NOMBRE = nombre_input
    /\ tipo_sel = {} \/ r.Tipo \in tipo_sel
    /\ depto_sel = {} \/ r.DEPARTAMEN \in depto_sel
    /\ mpio_sel = {} \/ r.MUNICIPIO \in mpio_sel

\* C1: in every run that filters, gdf_filtrado is exactly the rows of the base
\* collection that satisfy all active filters at once, the typed id_input
\* being a literal substring of ID_ANT; with every filter empty it is the
\* whole collection.
C1_FiltradoLiteral ==
    (fase = "hecho" /\ gdf_filtrado # Ninguno) =>
        gdf_filtrado[1] = SelectSeq(gdf[1], CumpleFiltros)

\* C9: every drawn territory is green exactly when it is counted as
\* indigenous and brown exactly when it is counted as community council, so
\* that the two counts add up to the number of filtered territories.
C9_MapaYEstadisticasCoinciden ==
    estadisticas # Ninguno =>
        LET e == estadisticas[1]
            g == gdf_filtrado[1]
            verdes == {i \in 1..Len(g) : estilos[i].color = ColorIndigena}
            marrones == {i \in 1..Len(g) : estilos[i].color = ColorConsejo}
        IN  /\ e.cuenta_indigena = Cardinality(verdes)
            /\ e.cuenta_consejo = Cardinality(marrones)
            /\ e.cuenta_indigena + e.cuenta_consejo = e.total_comunidades

C5_ExportaElFiltrado ==
    (csv # Ninguno \/ zip # Ninguno \/ salida \cap Descargas # {}) =>
        LET g == gdf_filtrado[1]
        IN  /\ {"descarga_csv", "descarga_shp"} \subseteq salida
            /\ csv # Ninguno /\ zip # Ninguno
            /\ g = SelectSeq(gdf[1], LAMBDA r : r \in Range(g))
            /\ zip[1].registros = g
            /\ Len(csv[1].filas) = Len(g)
            /\ csv[1].columnas = Atributos
            /\ \A i \in 1..Len(g) :
                  /\ DOMAIN csv[1].filas[i] = Atributos
                  /\ \A col \in Atributos : csv[1].filas[i][col] = g[i][col]
            /\ zip[1].archivos \subseteq ExtensionesZip

\* Downloads of a filtered set that leaves out a territory, the shapefile
\* written without its encoding file.
C5_Witness ==
    /\ "descarga_csv" \in salida
    /\ "descarga_shp" \in salida
    /\ Len(gdf_filtrado[1]) < Len(gdf[1])
    /\ ".cpg" \notin zip[1].archivos


\* C3: when the map is asked for and the filters match no territory, the run
\* ends normally and shows the warning of an empty result and nothing else
\* (only the footer that ends every run); when the filtered set is not empty,
\* that warning is not shown.
C3_SinResultados ==
    /\ (Flag /\ gdf_filtrado # Ninguno /\ gdf_filtrado[1] = <<>>) =>
           salida = {"aviso_sin_resultados", "pie"}
    /\ (gdf_filtrado # Ninguno /\ gdf_filtrado[1] # <<>>) =>
           "aviso_sin_resultados" \notin salida

\* The map is on and the filters leave nothing.
C3_Witness ==
    /\ Flag
    /\ gdf_filtrado = Algun(<<>>)
    /\ salida = {"aviso_sin_resultados", "pie"}

\* C8: mostrar_mapa is the only key of the session; it is False in the first
\* run of a session, becomes True only in a run where "Mostrar mapa" is
\* pressed, stays True until "Reiniciar visor" is pressed, which deletes every
\* key and reruns, the next run having it False again; and a run where it is
\* False shows no map, table, statistics, warning or download.
C8_BanderaDeSesion ==
    /\ [](DOMAIN session_state \subseteq {"mostrar_mapa"})
    /\ [](primera => ~Flag)
    /\ [](~Flag => salida \cap (ElementosResultado \cup Avisos) = {})
    /\ [][(~primera' /\ ~Flag /\ Flag') => boton' = "mostrar"]_vars
    /\ [][boton' = "mostrar" => Flag']_vars
    /\ [][(~primera' /\ Flag /\ ~Flag') => boton' = "reiniciar"]_vars
    /\ [][boton' = "reiniciar" => (session_state' = SesionVacia /\ rerun')]_vars
    /\ [][rerun => (~Flag' /\ boton' = "ninguno" /\ ~rerun')]_vars

\* The run after "Reiniciar visor": the flag is False again and nothing of a
\* result is shown, the filters still matching territories.
C8_Witness ==
    /\ ~primera
    /\ boton = "ninguno"
    /\ "mostrar_mapa" \in DOMAIN session_state
    /\ ~session_state["mostrar_mapa"]
    /\ gdf_filtrado # Ninguno
    /\ gdf_filtrado[1] # <<>>
    /\ salida = {"pie"}

\* C2 as stated: every load failure of either layer is reported and halts
\* the run, which then shows no map, table, statistics or download.
C2_TodoFalloDetiene ==
    (carga.principal \in Fallos \/ carga.deptos \in Fallos) =>
        /\ salida \cap ({"error_descarga", "excepcion"} \cup Avisos) # {}
        /\ salida \cap Productos = {}

\* C2 amended: a failure to load the territories, and a network failure
\* fetching either layer, is reported and halts the run before any map,
\* table, statistics or download; a corrupt departmental archive, or one with
\* no .shp, is reported as a warning and does not halt the run.
C2_FallosDeCarga ==
    /\ carga.principal = "red" => "error_descarga" \in salida
    /\ carga.principal \in {"corrupto", "sin_shp"} => "excepcion" \in salida
    /\ carga.deptos = "red" => "error_descarga" \in salida
    /\ (carga.principal \in Fallos \/ carga.deptos = "red") =>
           /\ salida \cap Productos = {}
           /\ "pie" \notin salida
    /\ carga.deptos = "sin_shp" => "aviso_limites_no_encontrado" \in salida
    /\ carga.deptos = "corrupto" => "aviso_limites_error" \in salida
    /\ carga.deptos \in {"sin_shp", "corrupto"} =>
           \/ "excepcion" \in salida
           \/ {"mapa", "tabla", "estadisticas", "descarga_csv",
               "descarga_shp", "pie"} \subseteq salida

\* The departmental archive holds no .shp and the map is shown all the same.
C2_Witness ==
    /\ carga.deptos = "sin_shp"
    /\ "aviso_limites_no_encontrado" \in salida
    /\ "mapa" \in salida

\* C4 as stated: every value of the collection a run works on is what the
\* cached loader returned.
C4_NuncaMutada ==
    gdf # Ninguno => gdf[1] = cache[FuentePrincipal][1]

\* C4 amended: the cached collection stays as loaded; the collection of a run
\* differs from it only in its date columns, turned to text right after the
\* load; filtering leaves it whole and takes its rows from it.
C4_SoloFechasATexto ==
    /\ cache[FuentePrincipal] \in {Ninguno, Algun(remoto)}
    /\ gdf # Ninguno =>
          LET base == cache[FuentePrincipal][1]
          IN  /\ Len(gdf[1]) = Len(base)
              /\ \A i \in 1..Len(base) : \A col \in Columnas :
                    \/ gdf[1][i][col] = base[i][col]
                    \/ /\ col = "FECHA"
                       /\ base[i][col][1] = "Timestamp"
                       /\ gdf[1][i][col] = Texto(base[i][col][2])
    /\ gdf_filtrado # Ninguno => Range(gdf_filtrado[1]) \subseteq Range(gdf[1])

\* Dates were turned to text, a filter left a territory out, and the result
\* was exported.
C4_Witness ==
    /\ gdf # Ninguno
    /\ gdf[1] # cache[FuentePrincipal][1]
    /\ gdf_filtrado # Ninguno
    /\ Len(gdf_filtrado[1]) < Len(gdf[1])
    /\ "descarga_csv" \in salida

\* The territories of the collection that share positive area with the
\* uploaded polygon, and those that only touch it along a boundary.
ConAreaComun ==
    {t \in territories : t.geometry \cap query[1] # {}}
SoloTocan ==
    {t \in territories :
        /\ t.geometry \cap query[1] = {}
        /\ \E a \in t.geometry : (a + 1) \in query[1] \/ (a - 1) \in query[1]}

\* C6 as stated: intersections is empty if and only if no territory shares
\* positive area or a boundary with the query polygon, so that a territory
\* that only touches the query makes intersections non-empty.
C6_VacioSiiNadaToca ==
    fase = "analizado" =>
        (intersections = {} <=> (ConAreaComun = {} /\ SoloTocan = {}))

\* C6 amended: intersections is empty when no territory shares positive area
\* or a boundary with the query polygon, and non-empty when some territory
\* shares positive area with it; a territory that only touches the query is
\* in affected, and every record is of an affected territory.
C6_VacioSinContacto ==
    fase = "analizado" =>
        /\ (ConAreaComun = {} /\ SoloTocan = {}) => intersections = {}
        /\ ConAreaComun # {} => intersections # {}
        /\ \A t \in ConAreaComun : \E i \in intersections : i.id = t.id
        /\ SoloTocan \subseteq affected
        /\ \A i \in intersections : \E t \in affected : t.id = i.id

\* An analysis in which a territory only touches the query, no territory
\* shares area with it, and no record was produced.
C6_Witness ==
    /\ fase = "analizado"
    /\ SoloTocan # {}
    /\ ConAreaComun = {}
    /\ affected = SoloTocan
    /\ intersections = {}

\* The scenario of C7: the query measures 10 ha and lies inside territory t,
\* declared 100 ha and measuring 95 ha, and meets no other territory.
C7_Escenario(t) ==
    /\ fase = "analizado"
    /\ t \in territories
    /\ t.area_total = 100
    /\ area_m2(t.geometry) = 95 * M2PorHa
    /\ area_m2(query[1]) = 10 * M2PorHa
    /\ query[1] \subseteq t.geometry
    /\ ConAreaComun = {t}
    /\ SoloTocan = {}

\* The one record of the scenario, with pct_of_territory as given (in
\* hundredths of a percent; area_ha in hundredths of a hectare).
C7_UnRegistro(pct) ==
    \A t \in territories :
        C7_Escenario(t) =>
            /\ Cardinality(intersections) = 1
            /\ \A i \in intersections :
                /\ i.id = t.id
                /\ i.area_ha = 1000
                /\ i.pct_of_query = 10000
                /\ i.pct_of_territory = pct

\* C7 as stated: in the scenario analyze returns exactly one record, with
\* area_ha = 10.00, pct_of_query = 100.00 and pct_of_territory = 10.53.
C7_PorcentajeSobreMedida == C7_UnRegistro(1053)

\* C7 amended: in the scenario analyze returns exactly one record, with
\* area_ha = 10.00, pct_of_query = 100.00 and pct_of_territory = 10.00, the
\* share of the declared 100 ha.
C7_PorcentajeSobreDeclarada == C7_UnRegistro(1000)

\* The scenario has been analysed and produced its record.
C7_Witness ==
    \E t \in territories :
        /\ C7_Escenario(t)
        /\ \E i \in intersections : i.id = t.id /\ i.area_ha = 1000

=============================================================================
